---- MODULE Spec2Model ----
(***************************************************************************)
(* Caffeinate maintenance scripts:                                         *)
(*   app/src/debug/res/strip.py        the resource stripper               *)
(*   git_hooks/update_publish_tags.py  tag sync, repository-object variant *)
(*   update_publish_tags.py            tag sync, shell-invocation variant  *)
(*                                                                         *)
(* A file on disk is a sequence of symbols. For strings.xml the symbols    *)
(* are characters: "A" stands for an occurrence of the substring app_name, *)
(* "R" for an occurrence of </resources>, "x" for any other text and NL    *)
(* for the line terminator. For publish_release.yml the symbols are the    *)
(* lines of a small YAML document (see YamlLines).                         *)
(***************************************************************************)
EXTENDS Integers, Sequences, FiniteSets, TLC

\* ------------------------------------------------------------------ bounds
MaxLen == 5
MaxRaceLen == 4
MaxYamlLen == 3
MaxArgc == 3
MaxRuns == 2

\* ------------------------------------------------------------- vocabulary
Procs == {1, 2}
Scripts == {"strip", "sync_repo", "sync_shell"}
Missing == <<"<no such file>">>
NL == "NL"
Chars == {"A", "R", "x", NL}
Null == << <<"<null>">> >>
NoRepo == {"<not a repository>"}
TagNames == {"v1", "v2"}
Version(t) == IF t = "v1" THEN 1 ELSE 2

RECURSIVE SeqsUpTo(_, _)
SeqsUpTo(S, n) ==
  IF n = 0 THEN {<<>>}
  ELSE LET shorter == SeqsUpTo(S, n - 1)
       IN shorter \cup {Append(s, c) : s \in {t \in shorter : Len(t) = n - 1}, c \in S}

VARIABLES script, disk, orig, repo, runs, firstOut,
          pc, argc, exitCode, lines, finalLines, kept, dirtyRead, tags, dataLoaded

vars == <<script, disk, orig, repo, runs, firstOut,
          pc, argc, exitCode, lines, finalLines, kept, dirtyRead, tags, dataLoaded>>

\* ------------------------------------------------------- resource stripper
Contains(line, c) == \E i \in DOMAIN line : line[i] = c

\* file.readlines(): the content cut after every line terminator; a last
\* line without terminator is a line too.
RECURSIVE ReadLinesAcc(_, _, _)
ReadLinesAcc(b, cur, acc) ==
  IF b = <<>> THEN (IF cur = <<>> THEN acc ELSE Append(acc, cur))
  ELSE IF Head(b) = NL THEN ReadLinesAcc(Tail(b), <<>>, Append(acc, Append(cur, NL)))
  ELSE ReadLinesAcc(Tail(b), Append(cur, Head(b)), acc)

ReadLines(b) == ReadLinesAcc(b, <<>>, <<>>)

\* ''.join(finalLines)
RECURSIVE Join(_)
Join(ls) == IF ls = <<>> THEN <<>> ELSE Head(ls) \o Join(Tail(ls))

\* The value of startDelete after the loop body has seen `line`.
NextStartDeleteReset(line, startDelete) == Contains(line, "A")

NextStartDelete(line, startDelete) == startDelete \/ Contains(line, "A")

\* Whether the loop body appends `line` to finalLines.
KeepLineNoPrefix(line, startDelete) == Contains(line, "A") \/ Contains(line, "R")

KeepLine(line, startDelete) ==
  \/ Contains(line, "A")
  \/ ~startDelete
  \/ Contains(line, "R")

\* for line in lines: ... ; the result is the positions of the lines appended
\* to finalLines, in order.
RECURSIVE FilterLoop(_, _, _, _)
FilterLoop(ls, i, startDelete, keptIdx) ==
  IF i > Len(ls) THEN keptIdx
  ELSE FilterLoop(ls, i + 1, NextStartDelete(ls[i], startDelete),
                  IF KeepLine(ls[i], startDelete) THEN Append(keptIdx, i) ELSE keptIdx)

KeptPositions(ls) == FilterLoop(ls, 1, FALSE, <<>>)

FilterLines(ls) == [k \in 1..Len(KeptPositions(ls)) |-> ls[KeptPositions(ls)[k]]]

\* open(path, 'w'): the file is created or cut to length 0.
Truncate(content) == <<>>

\* file.write(data) through a handle opened at offset 0: the bytes land at
\* the start of the file, and what another handle wrote beyond them stays.
WriteAppend(content, data) == content \o data

WriteAt0(content, data) ==
  IF Len(data) >= Len(content) THEN data
  ELSE data \o SubSeq(content, Len(data) + 1, Len(content))

\* ------------------------------------------------------------ process ends
Exit(p, code) ==
  /\ pc' = [pc EXCEPT ![p] = "done"]
  /\ exitCode' = [exitCode EXCEPT ![p] = code]

\* An unhandled exception: the interpreter prints the traceback and exits 1.
Crash(p) == Exit(p, 1)

\* if len(sys.argv) != 2: print(...); exit(93)
BadArgcNever(n) == FALSE

BadArgc(n) == n # 2

CheckArgs(p) ==
  /\ pc[p] = "start"
  /\ IF BadArgc(argc[p])
     THEN Exit(p, 93)
     ELSE /\ pc' = [pc EXCEPT ![p] = IF script = "strip" THEN "read" ELSE "git"]
          /\ UNCHANGED exitCode
  /\ UNCHANGED <<script, disk, orig, repo, runs, firstOut,
                 argc, lines, finalLines, kept, dirtyRead, tags, dataLoaded>>

\* with open(stringsFileXML) as file: lines = file.readlines()
StripRead(p) ==
  /\ pc[p] = "read"
  /\ IF disk = Missing
     THEN /\ Crash(p)
          /\ UNCHANGED <<lines, dirtyRead>>
     ELSE /\ lines' = [lines EXCEPT ![p] = ReadLines(disk)]
          /\ dirtyRead' = [dirtyRead EXCEPT
                             ![p] = \E q \in Procs \ {p} : pc[q] = "write"]
          /\ pc' = [pc EXCEPT ![p] = "filter"]
          /\ UNCHANGED exitCode
  /\ UNCHANGED <<script, disk, orig, repo, runs, firstOut,
                 argc, finalLines, kept, tags, dataLoaded>>

\* finalLines = []; startDelete = False; for line in lines: ...
StripFilter(p) ==
  /\ pc[p] = "filter"
  /\ finalLines' = [finalLines EXCEPT ![p] = FilterLines(lines[p])]
  /\ kept' = [kept EXCEPT ![p] = KeptPositions(lines[p])]
  /\ pc' = [pc EXCEPT ![p] = "open_w"]
  /\ UNCHANGED <<script, disk, orig, repo, runs, firstOut,
                 argc, exitCode, lines, dirtyRead, tags, dataLoaded>>

\* with open(stringsFileXML, 'w') as file:
StripOpenWrite(p) ==
  /\ pc[p] = "open_w"
  /\ script = "strip"
  /\ disk' = Truncate(disk)
  /\ pc' = [pc EXCEPT ![p] = "write"]
  /\ UNCHANGED <<script, orig, repo, runs, firstOut,
                 argc, exitCode, lines, finalLines, kept, dirtyRead, tags, dataLoaded>>

\* file.write(''.join(finalLines)), and the script ends with status 0.
StripWrite(p) ==
  /\ pc[p] = "write"
  /\ disk' = WriteAt0(disk, Join(finalLines[p]))
  /\ Exit(p, 0)
  /\ UNCHANGED <<script, orig, repo, runs, firstOut,
                 argc, lines, finalLines, kept, dirtyRead, tags, dataLoaded>>

\* The stripper is started again on the file its previous run left.
Rerun(p) ==
  /\ script = "strip"
  /\ pc[p] = "done"
  /\ exitCode[p] = 0
  /\ runs < MaxRuns
  /\ runs' = runs + 1
  /\ firstOut' = IF runs = 1 THEN disk ELSE firstOut
  /\ pc' = [pc EXCEPT ![p] = "start"]
  /\ exitCode' = [exitCode EXCEPT ![p] = -1]
  /\ UNCHANGED <<script, disk, orig, repo,
                 argc, lines, finalLines, kept, dirtyRead, tags, dataLoaded>>

\* ---------------------------------------------------------------- tag sync
\* A string is the sequence of its pieces: "" is <<>>, the tag v1 is <<"v1">>.
\* git tag -l --sort=-v:refname lists the tags by descending version.
RECURSIVE SortDesc(_)
SortDesc(S) ==
  IF S = {} THEN <<>>
  ELSE LET m == CHOOSE t \in S : \A u \in S : Version(u) <= Version(t)
       IN <<m>> \o SortDesc(S \ {m})

\* What git prints: every tag followed by a line terminator.
GitStdout(r) == Join([i \in 1..Cardinality(r) |-> <<SortDesc(r)[i], NL>>])

\* str.strip(): leading and trailing whitespace removed.
RECURSIVE StripLeft(_)
StripLeft(s) == IF s # <<>> /\ Head(s) = NL THEN StripLeft(Tail(s)) ELSE s

RECURSIVE StripRight(_)
StripRight(s) ==
  IF s # <<>> /\ s[Len(s)] = NL THEN StripRight(SubSeq(s, 1, Len(s) - 1)) ELSE s

StrStrip(s) == StripRight(StripLeft(s))

\* str.split('\n'): the pieces between separators; one more piece than
\* separators, so the empty string splits into one empty piece.
RECURSIVE SplitAcc(_, _, _)
SplitAcc(s, cur, acc) ==
  IF s = <<>> THEN Append(acc, cur)
  ELSE IF Head(s) = NL THEN SplitAcc(Tail(s), <<>>, Append(acc, cur))
  ELSE SplitAcc(Tail(s), Append(cur, Head(s)), acc)

StrSplit(s) == SplitAcc(s, <<>>, <<>>)

\* tags = <git output>.strip().split('\n')
TagsOf(out) == StrSplit(StrStrip(out))

\* The lines of publish_release.yml. `name: a` and `name: b` are a key other
\* than the options path; `options:` opens the block list
\* on.workflow_dispatch.inputs.releaseTag.options and `options: []` is the
\* empty flow list; the rest are list items, plain or quoted.
YamlLines == {"name: a", "name: b", "options:", "options: []",
              "- v1", "- 'v1'", "- v2", "- ''"}

ItemValue(l) ==
  IF l \in {"- v1", "- 'v1'"} THEN <<"v1">>
  ELSE IF l = "- v2" THEN <<"v2">>
  ELSE <<>>

ItemLine(t) ==
  IF t = <<"v1">> THEN "- v1"
  ELSE IF t = <<"v2">> THEN "- v2"
  ELSE "- ''"

HasKey(doc, k) == \E i \in DOMAIN doc.keys : doc.keys[i] = k

NoDoc == [ok |-> FALSE, keys |-> <<>>, name |-> "", options |-> Null, inList |-> FALSE]

\* yaml.load(yamlFile): the key-ordered mapping of the document; ok is FALSE
\* where the loader raises (a duplicate key, a list item outside a list).
RECURSIVE ParseAcc(_, _)
ParseAcc(b, doc) ==
  IF b = <<>> THEN doc
  ELSE LET l == Head(b) IN
    IF l \in {"name: a", "name: b"} THEN
      IF HasKey(doc, "name") THEN NoDoc
      ELSE ParseAcc(Tail(b), [doc EXCEPT !.keys = Append(@, "name"),
                                         !.name = IF l = "name: a" THEN "a" ELSE "b",
                                         !.inList = FALSE])
    ELSE IF l \in {"options:", "options: []"} THEN
      IF HasKey(doc, "options") THEN NoDoc
      ELSE ParseAcc(Tail(b), [doc EXCEPT !.keys = Append(@, "options"),
                                         !.options = IF l = "options:" THEN Null ELSE <<>>,
                                         !.inList = (l = "options:")])
    ELSE IF ~doc.inList THEN NoDoc
    ELSE ParseAcc(Tail(b), [doc EXCEPT !.options = IF @ = Null THEN <<ItemValue(l)>>
                                                   ELSE Append(@, ItemValue(l))])

ParseYaml(b) == ParseAcc(b, [NoDoc EXCEPT !.ok = TRUE])

\* yaml.dump(dataLoaded, yamlFile): the keys in their order; a list assigned
\* by the script is written in block style with plain or quoted scalars.
OptionLines(options) ==
  IF options = Null THEN <<"options:">>
  ELSE IF options = <<>> THEN <<"options: []">>
  ELSE <<"options:">> \o [i \in 1..Len(options) |-> ItemLine(options[i])]

KeyLines(doc, k) ==
  IF k = "name" THEN <<IF doc.name = "a" THEN "name: a" ELSE "name: b">>
  ELSE OptionLines(doc.options)

DumpYaml(doc) == Join([i \in 1..Len(doc.keys) |-> KeyLines(doc, doc.keys[i])])

\* dataLoaded[...]['options'] != tags
OptionsDifferAlways(options, ts) == TRUE

OptionsDiffer(options, ts) == options # ts

\* dataLoaded[...]['options'] = tags
SetOptionsExtend(doc, ts) ==
  [doc EXCEPT !.options = IF @ = Null THEN ts ELSE @ \o ts]

SetOptions(doc, ts) == [doc EXCEPT !.options = ts]

\* The status of a run that found the options up to date.
UpToDateExitZero(s) == 0

UpToDateExit(s) == IF s = "sync_repo" THEN 93 ELSE 0

\* git.Repo(path) raises outside a repository; os.popen('git tag ...') there
\* reads an empty output.
ListTags(p) ==
  /\ pc[p] = "git"
  /\ IF script = "sync_repo" /\ repo = NoRepo
     THEN /\ Crash(p)
          /\ UNCHANGED tags
     ELSE /\ tags' = [tags EXCEPT
                        ![p] = TagsOf(IF repo = NoRepo THEN <<>> ELSE GitStdout(repo))]
          /\ pc' = [pc EXCEPT ![p] = "load"]
          /\ UNCHANGED exitCode
  /\ UNCHANGED <<script, disk, orig, repo, runs, firstOut,
                 argc, lines, finalLines, kept, dirtyRead, dataLoaded>>

\* with open(publishReleaseYamlPath, 'r') as yamlFile: dataLoaded = yaml.load(yamlFile)
LoadYaml(p) ==
  /\ pc[p] = "load"
  /\ IF disk = Missing \/ ~ParseYaml(disk).ok
     THEN /\ Crash(p)
          /\ UNCHANGED dataLoaded
     ELSE /\ dataLoaded' = [dataLoaded EXCEPT ![p] = ParseYaml(disk)]
          /\ pc' = [pc EXCEPT ![p] = "compare"]
          /\ UNCHANGED exitCode
  /\ UNCHANGED <<script, disk, orig, repo, runs, firstOut,
                 argc, lines, finalLines, kept, dirtyRead, tags>>

\* if options != tags: options = tags ... else: up to date. A document
\* without the options path raises KeyError (TypeError for an empty one).
Compare(p) ==
  /\ pc[p] = "compare"
  /\ IF ~HasKey(dataLoaded[p], "options")
     THEN /\ Crash(p)
          /\ UNCHANGED dataLoaded
     ELSE IF OptionsDiffer(dataLoaded[p].options, tags[p])
     THEN /\ dataLoaded' = [dataLoaded EXCEPT ![p] = SetOptions(@, tags[p])]
          /\ pc' = [pc EXCEPT ![p] = "open_w"]
          /\ UNCHANGED exitCode
     ELSE /\ Exit(p, UpToDateExit(script))
          /\ UNCHANGED dataLoaded
  /\ UNCHANGED <<script, disk, orig, repo, runs, firstOut,
                 argc, lines, finalLines, kept, dirtyRead, tags>>

\* with open(publishReleaseYamlPath, 'w') as yamlFile: the file is cut to
\* length 0, or the open is refused and the file stays as it is.
SyncOpenWrite(p) ==
  /\ pc[p] = "open_w"
  /\ script # "strip"
  /\ \/ /\ disk' = Truncate(disk)
        /\ pc' = [pc EXCEPT ![p] = "dump"]
        /\ UNCHANGED exitCode
     \/ /\ Crash(p)
        /\ UNCHANGED disk
  /\ UNCHANGED <<script, orig, repo, runs, firstOut,
                 argc, lines, finalLines, kept, dirtyRead, tags, dataLoaded>>

\* yaml.dump(dataLoaded, yamlFile) streams the document into the open file:
\* it writes all of it, or an error (a full disk, an interrupt) ends the
\* script with only the first n lines written.
Dump(p) ==
  /\ pc[p] = "dump"
  /\ \E n \in 0..Len(DumpYaml(dataLoaded[p])) :
       /\ disk' = WriteAt0(disk, SubSeq(DumpYaml(dataLoaded[p]), 1, n))
       /\ IF n = Len(DumpYaml(dataLoaded[p])) THEN Exit(p, 0) ELSE Crash(p)
  /\ UNCHANGED <<script, orig, repo, runs, firstOut,
                 argc, lines, finalLines, kept, dirtyRead, tags, dataLoaded>>

\* ---------------------------------------------------------- specifications
InitLocals ==
  /\ runs = 1
  /\ firstOut = <<>>
  /\ exitCode = [p \in Procs |-> -1]
  /\ lines = [p \in Procs |-> <<>>]
  /\ finalLines = [p \in Procs |-> <<>>]
  /\ kept = [p \in Procs |-> <<>>]
  /\ dirtyRead = [p \in Procs |-> FALSE]
  /\ tags = [p \in Procs |-> <<>>]
  /\ dataLoaded = [p \in Procs |-> NoDoc]

\* One invocation of one of the three scripts.
Init ==
  /\ script \in Scripts
  /\ disk \in (IF script = "strip" THEN SeqsUpTo(Chars, MaxLen)
               ELSE SeqsUpTo(YamlLines, MaxYamlLen)) \cup {Missing}
  /\ orig = disk
  /\ repo \in IF script = "strip" THEN {NoRepo} ELSE (SUBSET TagNames) \cup {NoRepo}
  /\ \E n \in 1..MaxArgc : argc = [p \in Procs |-> n]
  /\ pc = [p \in Procs |-> IF p = 1 THEN "start" ELSE "off"]
  /\ InitLocals

Next ==
  \E p \in Procs :
    \/ CheckArgs(p)
    \/ StripRead(p)
    \/ StripFilter(p)
    \/ StripOpenWrite(p)
    \/ StripWrite(p)
    \/ Rerun(p)
    \/ ListTags(p)
    \/ LoadYaml(p)
    \/ Compare(p)
    \/ SyncOpenWrite(p)
    \/ Dump(p)

Spec == Init /\ [][Next]_vars

\* Two invocations of the stripper on the same strings.xml, each with its
\* directory argument.
InitRace ==
  /\ script = "strip"
  /\ disk \in SeqsUpTo(Chars, MaxRaceLen)
  /\ orig = disk
  /\ repo = NoRepo
  /\ argc = [p \in Procs |-> 2]
  /\ pc = [p \in Procs |-> "start"]
  /\ InitLocals

NextRace ==
  \E p \in Procs :
    \/ CheckArgs(p)
    \/ StripRead(p)
    \/ StripFilter(p)
    \/ StripOpenWrite(p)
    \/ StripWrite(p)

SpecRace == InitRace /\ [][NextRace]_vars

\* ------------------------------------------------------------------ claims
Range(f) == {f[i] : i \in DOMAIN f}

\* The position of the first line containing app_name, 0 if there is none.
FirstMarker(ls) ==
  IF \E i \in DOMAIN ls : Contains(ls[i], "A")
  THEN CHOOSE i \in DOMAIN ls :
         /\ Contains(ls[i], "A")
         /\ \A j \in 1..(i - 1) : ~Contains(ls[j], "A")
  ELSE 0

\* The position of the first line after m containing </resources>, 0 if none.
NextClosing(ls, m) ==
  IF \E i \in DOMAIN ls : i > m /\ Contains(ls[i], "R")
  THEN CHOOSE i \in DOMAIN ls :
         /\ i > m
         /\ Contains(ls[i], "R")
         /\ \A j \in (m + 1)..(i - 1) : ~Contains(ls[j], "R")
  ELSE 0

\* One whole run of the stripper on content b.
StripBytes(b) == Join(FilterLines(ReadLines(b)))

\* The first run of the stripper has written the file and ended.
FirstStripDone ==
  script = "strip" /\ runs = 1 /\ pc[1] = "done" /\ exitCode[1] = 0

OrigDoc == ParseYaml(orig)

\* The workflow file held a document with the options path when the run began.
OrigHasOptions == orig # Missing /\ OrigDoc.ok /\ HasKey(OrigDoc, "options")

\* The tag names of the repository as git orders them, each one string.
RepoTags == [i \in 1..Cardinality(repo) |-> <<SortDesc(repo)[i]>>]

\* C1: after a run of the stripper, every line strictly between the first
\* app_name line and the next </resources> line is absent from the output,
\* and these two lines are in the output verbatim.
C1_SpanRemoved ==
  FirstStripDone =>
    LET ls == ReadLines(orig)
        m == FirstMarker(ls)
        c == NextClosing(ls, m)
    IN (m # 0 /\ c # 0) =>
         /\ \A i \in (m + 1)..(c - 1) : i \notin Range(kept[1])
         /\ m \in Range(kept[1])
         /\ c \in Range(kept[1])
         /\ ReadLines(disk) = [k \in 1..Len(kept[1]) |-> ls[kept[1][k]]]

\* C2: after any run of tag sync, failed or not, the workflow file is
\* byte-identical to what it was before the run or is the complete new
\* document.
C2_AllOrNothing ==
  (script # "strip" /\ pc[1] = "done") =>
    \/ disk = orig
    \/ /\ OrigHasOptions
       /\ disk = DumpYaml(SetOptions(OrigDoc, tags[1]))

\* C3: when the options loaded from the workflow file equal the computed tag
\* list, tag sync never writes the file: its bytes stay those of before the run.
C3_EqualNoWrite ==
  (script # "strip" /\ OrigHasOptions /\ OrigDoc.options = tags[1]) => disk = orig

C3_Witness ==
  /\ script # "strip"
  /\ pc[1] = "done"
  /\ exitCode[1] # 1
  /\ argc[1] = 2
  /\ OrigHasOptions
  /\ Len(tags[1]) = 2
  /\ OrigDoc.options = tags[1]
  /\ Contains(orig, "- 'v1'")
  /\ disk = orig

\* C4: when the loaded options differ from the computed tag list, after the
\* run the options field of the file is exactly the tag list and every other
\* key and value of the document is as before.
C4_DifferRewritten ==
  (script # "strip" /\ pc[1] = "done" /\ exitCode[1] = 0
     /\ OrigHasOptions /\ OrigDoc.options # tags[1]) =>
    /\ ParseYaml(disk).ok
    /\ ParseYaml(disk).options = tags[1]
    /\ ParseYaml(disk).keys = OrigDoc.keys
    /\ ParseYaml(disk).name = OrigDoc.name

C4_Witness ==
  /\ script # "strip"
  /\ pc[1] = "done"
  /\ exitCode[1] = 0
  /\ OrigHasOptions
  /\ OrigDoc.options = << <<"v1">> >>
  /\ tags[1] = << <<"v2">>, <<"v1">> >>
  /\ HasKey(OrigDoc, "name")
  /\ ParseYaml(disk).options = tags[1]
  /\ ParseYaml(disk).name = OrigDoc.name

\* C5: with one argument and no I/O or parse error, the repository-object
\* variant exits 93 exactly when the options equal the tags (and nothing is
\* written) and 0 exactly when it rewrote the file; the shell-invocation
\* variant exits 0 on both paths.
C5_ExitStatus ==
  (script # "strip" /\ pc[1] = "done" /\ argc[1] = 2 /\ exitCode[1] # 1) =>
    /\ OrigHasOptions
    /\ IF script = "sync_repo"
       THEN \/ /\ exitCode[1] = 93
               /\ OrigDoc.options = tags[1]
               /\ disk = orig
            \/ /\ exitCode[1] = 0
               /\ OrigDoc.options # tags[1]
               /\ disk = DumpYaml(SetOptions(OrigDoc, tags[1]))
       ELSE exitCode[1] = 0

C5_Witness ==
  /\ script = "sync_repo"
  /\ pc[1] = "done"
  /\ argc[1] = 2
  /\ exitCode[1] = 93
  /\ OrigDoc.options = tags[1]
  /\ disk = orig

\* C6: with an argument count other than one, each of the three scripts exits
\* 93 before it opens, reads, truncates or writes a file and before it asks
\* git; the target file is unchanged.
C6_UsageError ==
  \A p \in Procs :
    (pc[p] # "off" /\ argc[p] # 2) =>
      /\ pc[p] \in {"start", "done"}
      /\ pc[p] = "done" => exitCode[p] = 93
      /\ disk = orig
      /\ lines[p] = <<>>
      /\ tags[p] = <<>>
      /\ dataLoaded[p] = NoDoc

C6_Witness ==
  /\ script = "sync_shell"
  /\ argc[1] = 1
  /\ pc[1] = "done"
  /\ exitCode[1] = 93
  /\ orig # Missing
  /\ disk = orig

\* C7: a run of the stripper on the output of an earlier run leaves that
\* output as it is.
C7_Idempotent ==
  (script = "strip" /\ runs >= 2 /\ pc[1] = "done" /\ exitCode[1] = 0) =>
    disk = firstOut

C7_Witness ==
  /\ script = "strip"
  /\ runs = 2
  /\ pc[1] = "done"
  /\ exitCode[1] = 0
  /\ firstOut # orig
  /\ disk = firstOut
  /\ Cardinality({i \in DOMAIN lines[1] : Contains(lines[1][i], "A")}) = 2

\* C8: the lines before the first app_name line are the prefix of the output,
\* unchanged and in order; without any app_name line the output is the input.
C8_PrefixKept ==
  FirstStripDone =>
    LET ls == ReadLines(orig)
        out == ReadLines(disk)
        m == FirstMarker(ls)
    IN IF m = 0 THEN disk = orig
       ELSE /\ Len(out) >= m - 1
            /\ SubSeq(out, 1, m - 1) = SubSeq(ls, 1, m - 1)

C8_Witness ==
  /\ FirstStripDone
  /\ FirstMarker(ReadLines(orig)) = 2
  /\ disk # orig
  /\ ReadLines(disk)[1] = ReadLines(orig)[1]

\* Both runs of the race have ended.
RaceOver == \A p \in Procs : pc[p] = "done"

\* The file after the two runs one after the other, in either order.
SequentialResult == StripBytes(StripBytes(orig))

\* C9: two unlocked runs of the stripper on one file can end with a content
\* that neither sequential order gives, and only where one run read the file
\* between the other's truncation and its write.
C9_RaceNeedsDirtyRead ==
  (RaceOver /\ disk # SequentialResult) => \E p \in Procs : dirtyRead[p]

C9_Witness ==
  /\ RaceOver
  /\ disk # SequentialResult
  /\ \E p \in Procs : dirtyRead[p] /\ lines[p] = <<>>

\* C10: the tag list tag sync computes is the sequence of the repository's
\* tag names, one element per tag; for a repository without tags it is empty,
\* and a workflow file whose options are the empty list is left unwritten.
C10_TagsAreRepoTags ==
  (script # "strip" /\ repo # NoRepo) =>
    /\ pc[1] \in {"load", "compare", "open_w", "dump"} => tags[1] = RepoTags
    /\ (pc[1] = "done" /\ exitCode[1] # 1 /\ argc[1] = 2 /\ repo = {}
          /\ OrigHasOptions /\ OrigDoc.options = <<>>) => disk = orig

====
